---- MODULE Spec2Model ----
(***************************************************************************)
(* A model of the HDF5-UDF backends: LuaBackend (lua_backend.cpp) and      *)
(* CppBackend (main.cpp / cpp_backend).                                    *)
(*                                                                         *)
(*   SpecRun     LuaBackend::run (parent and forked child) and             *)
(*               CppBackend::run, called repeatedly by one host process    *)
(*   SpecCompile LuaBackend::compile and CppBackend::compile               *)
(*   SpecScan    LuaBackend::udfDatasetNames and the line extraction of    *)
(*               CppBackend::udfDatasetNames                               *)
(*   SpecPipe    the preprocessor child and the pipe read loop of          *)
(*               CppBackend::udfDatasetNames; SpecPipeLive adds the        *)
(*               scheduler's fairness                                      *)
(*   SpecRegistry LuaBackend::run called with long dataset tables          *)
(***************************************************************************)
EXTENDS Integers, Sequences, FiniteSets, TLC

(***************************************************************************)
(* Bounds of the model.                                                    *)
(***************************************************************************)
MaxInputs == 2      \* input descriptors per run invocation
MaxGrid == 2        \* elements of the output grid (one byte each)

VARIABLES
    \* ---- host process, run() ----
    enable_sandbox,   \* build flag ENABLE_SANDBOX
    pc,               \* "idle" | "waiting" (in waitpid) | "returned" | "dead"
    backend,          \* backend of the current / last run call
    bytecode,         \* kind of artifact handed to run
    input_datasets,   \* argument: sequence of descriptors
    output_dataset,   \* argument: the output descriptor
    out_buf,          \* bytes behind output_dataset.data (the caller's buffer)
    out_buf0,         \* out_buf as it was when run was entered
    mm_mapped,        \* AnonymousMemoryMap of this invocation is mapped
    mm,               \* contents of the shared mapping
    dataset_info,     \* the table built by run
    registry,         \* LUA_REGISTRYINDEX entries written by run
    L_open,           \* the lua_State created by this invocation is open
    status,           \* wait status filled in by waitpid
    ret,              \* value returned by the last run call
    exit_path,        \* which return statement the last run call took
    faulted,          \* an earlier invocation's user function aborted/crashed
    \* ---- forked child of LuaBackend::run ----
    child_pc,         \* "none" | "forked" | "init" | "udf" | "terminated"
    child_term,       \* how the child terminated
    shm_at_exit,      \* contents of the mapping when the child terminated
    entry_done,       \* dynamic_dataset was invoked and returned without error
    got,              \* values returned by the child's last lib lookups
    in_bufs,          \* bytes behind input_datasets[k].data, where a user
                      \* function of the README reads them
    child_priv,       \* the child's private copy of the caller's buffers
    locals,           \* pointers a README user function got from lib.getData
    udf_i,            \* loop index i of a README user function
    \* ---- containers exported by the C++ shared library ----
    so_symbols,       \* symbols the shared library handed to run exports
    hdf5_udf_data, hdf5_udf_names, hdf5_udf_types, hdf5_udf_dims,
    udf_calls,        \* times this CppBackend::run call invoked the entry point
    \* ---- compile() ----
    c_pc,             \* "idle" | "waiting" (in wait4) | "returned"
    c_backend,        \* backend of the current / last compile call
    c_args,           \* the udf file, the template_file argument, the template
    fs_output,        \* the file udf_file + ".so" / ".bytecode"
    fs_source,        \* the temporary source file handed to the toolchain
    tool_pc,          \* forked child: "none" | "forked" | "returned" | "terminated"
    tool_term,        \* how the forked child terminated
    stat_found,       \* stat(output) succeeded in the parent
    c_result,         \* the artifact compile returned to its caller
    c_path,           \* which return statement the last compile call took
    \* ---- udfDatasetNames() ----
    s_backend,        \* backend whose scanner runs
    text,             \* the lines std::getline yields, in order
    pos,              \* number of lines read so far
    is_comment,       \* LuaBackend::udfDatasetNames: inside a block comment
    output,           \* the vector of names collected so far
    from_lines,       \* for each element of output, the line it was taken from
    \* ---- CppBackend::udfDatasetNames: preprocessor child and pipe ----
    pipe_pc,          \* parent: "idle" | "read" | "waitpid" | "lines" | "returned"
    cpp_pc,           \* child: "none" | "forked" | "running" | "returned" |
                      \*        "exited" | "reaped"
    pipe,             \* bytes written to the pipe and not yet read
    pending,          \* output the preprocessor has still to write
    wrote,            \* every byte the child has written to the pipe
    input             \* the string the parent appends what it reads to

run_vars == <<enable_sandbox, pc, backend, bytecode, input_datasets,
              output_dataset, out_buf, out_buf0, mm_mapped, mm, dataset_info,
              registry, L_open, status, ret, exit_path, faulted, child_pc,
              child_term, shm_at_exit, entry_done, got, in_bufs, child_priv,
              locals, udf_i, so_symbols,
              hdf5_udf_data, hdf5_udf_names, hdf5_udf_types, hdf5_udf_dims,
              udf_calls>>

compile_vars == <<c_pc, c_backend, c_args, fs_output, fs_source, tool_pc,
                  tool_term, stat_found, c_result, c_path>>

scan_vars == <<s_backend, text, pos, is_comment, output, from_lines>>

pipe_vars == <<pipe_pc, cpp_pc, pipe, pending, wrote, input>>

vars == <<run_vars, compile_vars, scan_vars, pipe_vars>>

(***************************************************************************)
(* Values.                                                                 *)
(***************************************************************************)
Byte == {0, 1}
NULL == <<"null", 0>>          \* a NULL void pointer
NULLSTR == "(null)"            \* a NULL const char pointer
OutPtr == <<"out", 0>>         \* the caller's output buffer
ShmPtr == <<"shm", 0>>         \* mm.mm
InPtr(k) == <<"in", k>>        \* the caller's k-th input buffer

InputNames == {"A", ""}
OutputNames == {"C", "A"}
QueryNames == {"A", "C", "Z", ""}
BytecodeKinds == {"malformed", "raises", "good"}
Signals == {6, 31}

NatStr(k) == <<"0", "1", "2", "3", "4", "5", "6">>[k + 1]

\* DatasetInfo::getDatatype / getCastDatatype / getGridSize / getStorageSize
getDatatype(d) == d.datatype
getCastDatatype(d) == IF d.datatype = "" THEN "" ELSE "cast_" \o d.datatype
getGridSize(d) == d.grid
getStorageSize(d) == IF d.datatype = "int8" THEN 1 ELSE 4

\* DatasetInfo(): the entry with the empty name
empty_entry ==
    [name |-> "", data |-> NULL, dimensions_str |-> "", datatype |-> "",
     dimensions |-> << >>, grid |-> 0]

\* The k-th input descriptor a caller passes, named nm
InputDesc(k, nm) ==
    [name |-> nm, data |-> InPtr(k), dimensions_str |-> NatStr(k),
     datatype |-> IF k % 2 = 1 THEN "int32" ELSE "float",
     dimensions |-> <<k>>, grid |-> k]

\* An output descriptor of g one-byte elements
OutputDesc(nm, g) ==
    [name |-> nm, data |-> OutPtr, dimensions_str |-> "1x" \o NatStr(g),
     datatype |-> "int8", dimensions |-> <<1, g>>, grid |-> g]

InputSeqs ==
    UNION {{[k \in 1..n |-> InputDesc(k, f[k])] : f \in [1..n -> InputNames]}
             : n \in 0..MaxInputs}

OutputDescs == {OutputDesc(nm, g) : nm \in OutputNames, g \in 1..MaxGrid}

Buffers(n) == [1..n -> Byte]
Zeroes(n) == [i \in 1..n |-> 0]

NoLookup == [q |-> "-", index |-> -1, data |-> NULL, type |-> NULLSTR,
             cast |-> NULLSTR, dims |-> NULLSTR]
NoTerm == [kind |-> "none", code |-> 0]

(***************************************************************************)
(* The Lua registry side table (lua_backend.cpp:32-36, 215-242).           *)
(* Keys are byte offsets from &State.                                      *)
(***************************************************************************)
DATA_OFFSET(i) == i
NAME_OFFSET(i) == 100 + i
DIMS_OFFSET(i) == 200 + i
TYPE_OFFSET(i) == 300 + i
CAST_OFFSET(i) == 400 + i

LightUserData(p) == [t |-> "lightuserdata", v |-> p]
LuaString(s) == [t |-> "string", v |-> s]
LuaNil == [t |-> "nil", v |-> NULLSTR]

\* lua_settable(L, LUA_REGISTRYINDEX) with key k and value v
lua_settable(reg, k, v) ==
    [x \in DOMAIN reg \cup {k} |-> IF x = k THEN v ELSE reg[x]]

\* lua_gettable(State, LUA_REGISTRYINDEX) with key k
lua_gettable(reg, k) == IF k \in DOMAIN reg THEN reg[k] ELSE LuaNil

\* lua_tostring: NULL unless the value is a string
lua_tostring(val) == IF val.t = "string" THEN val.v ELSE NULLSTR

\* lua_touserdata: NULL unless the value is a userdata
lua_touserdata(val) == IF val.t = "lightuserdata" THEN val.v ELSE NULL

\* One iteration of the loop at lua_backend.cpp:216-242, for entry i (0-based)
RegisterEntry(reg, tab, i) ==
    LET e  == tab[i + 1]
        r1 == lua_settable(reg, DATA_OFFSET(i), LightUserData(e.data))
        r2 == lua_settable(r1, NAME_OFFSET(i), LuaString(e.name))
        r3 == lua_settable(r2, DIMS_OFFSET(i), LuaString(e.dimensions_str))
        r4 == lua_settable(r3, TYPE_OFFSET(i), LuaString(getDatatype(e)))
    IN  lua_settable(r4, CAST_OFFSET(i), LuaString(getCastDatatype(e)))

\* The registry after the loop has run for entries 0..n-1 of tab: every key
\* holds what the last iteration that set it stored
RegisterUpTo(tab, n) ==
    LET one == [i \in 0..(n - 1) |-> RegisterEntry(<< >>, tab, i)]
        keys == UNION {DOMAIN one[i] : i \in 0..(n - 1)}
        last(k) == CHOOSE i \in 0..(n - 1) :
                      /\ k \in DOMAIN one[i]
                      /\ \A j \in (i + 1)..(n - 1) : k \notin DOMAIN one[j]
    IN  [k \in keys |-> one[last(k)][k]]

Populate(tab) == RegisterUpTo(tab, Len(tab))

\* lua_backend.cpp:204-213 with the inputs inserted before the output
BuildTable_InputsFirst(out, ins) ==
    ins \o <<[out EXCEPT !.data = ShmPtr]>> \o <<empty_entry>>

\* lua_backend.cpp:204-213 without output_dataset_copy.data = mm.mm
BuildTable_NoRedirect(out, ins) == <<out>> \o ins \o <<empty_entry>>

\* lua_backend.cpp:204-213: output copy (data redirected to the mapping),
\* the inputs, the empty entry
BuildTable(out, ins) ==
    <<[out EXCEPT !.data = ShmPtr]>> \o ins \o <<empty_entry>>

\* The loop of index_of from `index` on: the first index at which it leaves,
\* by return or by break, decides the result; StrcmpNull when lua_tostring
\* gives NULL to strcmp
StrcmpNull == -2
index_of_from(reg, element, index) ==
    LET name(i) == lua_tostring(lua_gettable(reg, NAME_OFFSET(i)))
        leaves(i) == name(i) \in {NULLSTR, element, ""}
    IN  IF \A i \in index..99 : ~leaves(i) THEN -1
        ELSE LET first == CHOOSE i \in index..99 :
                              leaves(i) /\ \A j \in index..(i - 1) : ~leaves(j)
             IN  IF name(first) = NULLSTR THEN StrcmpNull
                 ELSE IF name(first) = element THEN first
                 ELSE -1

\* The scan started at index 1, after the output descriptor
index_of_inputs(reg, element) == index_of_from(reg, element, 1)

index_of(reg, element) == index_of_from(reg, element, 0)

luaGetData(reg, element) ==
    LET index == index_of(reg, element)
    IN  IF index >= 0
        THEN lua_touserdata(lua_gettable(reg, DATA_OFFSET(index)))
        ELSE NULL

luaGetType(reg, element) ==
    LET index == index_of(reg, element)
    IN  IF index >= 0
        THEN lua_tostring(lua_gettable(reg, TYPE_OFFSET(index)))
        ELSE NULLSTR

luaGetCast(reg, element) ==
    LET index == index_of(reg, element)
    IN  IF index >= 0
        THEN lua_tostring(lua_gettable(reg, CAST_OFFSET(index)))
        ELSE NULLSTR

luaGetDims(reg, element) ==
    LET index == index_of(reg, element)
    IN  IF index >= 0
        THEN lua_tostring(lua_gettable(reg, DIMS_OFFSET(index)))
        ELSE NULLSTR

(***************************************************************************)
(* Wait statuses (sys/wait.h) and the result of run.                       *)
(***************************************************************************)
\* The status waitpid stores for a child that terminated as `term`
WaitStatus(term) ==
    IF term.kind = "exit" THEN (term.code % 256) * 256 ELSE term.code

WIFEXITED(s) == s % 128 = 0
WEXITSTATUS(s) == (s \div 256) % 256

\* lua_backend.cpp:296 without the WIFEXITED test
RetFromStatus_NoIfExited(s) == WEXITSTATUS(s) = 0

\* lua_backend.cpp:296
RetFromStatus(s) == IF WIFEXITED(s) THEN WEXITSTATUS(s) = 0 ELSE FALSE

\* memcpy that stops one byte short
memcpy_short(dst, src, n) ==
    [i \in DOMAIN dst |-> IF i <= n - 1 THEN src[i] ELSE dst[i]]

\* memcpy(dst, src, n)
memcpy(dst, src, n) ==
    [i \in DOMAIN dst |-> IF i <= n THEN src[i] ELSE dst[i]]

(***************************************************************************)
(* LuaBackend::run, parent side up to fork (lua_backend.cpp:170-261).      *)
(* Every action below is one path through that code, taken from "idle".    *)
(***************************************************************************)
\* AnonymousMemoryMap::~AnonymousMemoryMap, run when the local object mm of
\* LuaBackend::run goes out of scope at a return statement: whether the
\* mapping is still mapped afterwards
AnonymousMemoryMap_destroy(mapped) == FALSE

\* The caller's arguments and the state every path sets up before mm.create()
LuaRunEnter(ins, out, buf, bc) ==
    /\ pc = "idle"
    /\ backend' = "lua"
    /\ bytecode' = bc
    /\ input_datasets' = ins
    /\ output_dataset' = out
    /\ out_buf0' = buf
    /\ status' = 0
    /\ child_term' = NoTerm
    /\ entry_done' = FALSE
    /\ got' = NoLookup
    /\ UNCHANGED <<enable_sandbox, faulted, so_symbols, hdf5_udf_data,
                   hdf5_udf_names, hdf5_udf_types, hdf5_udf_dims, udf_calls>>
    /\ UNCHANGED <<in_bufs, child_priv, locals, udf_i>>

room_size(out) == getGridSize(out) * getStorageSize(out)

run_frame == <<compile_vars, scan_vars, pipe_vars>>

\* mm.create() fails: return false (lua_backend.cpp:199-202)
LuaRunMapFail ==
    /\ pc = "idle"
    /\ \E ins \in InputSeqs, out \in OutputDescs, bc \in BytecodeKinds :
         \E buf \in Buffers(room_size(out)) :
           /\ LuaRunEnter(ins, out, buf, bc)
           /\ out_buf' = buf
           /\ L_open' = TRUE
           /\ mm_mapped' = FALSE
           /\ mm' = << >>
           /\ shm_at_exit' = << >>
           /\ dataset_info' = << >>
           /\ registry' = << >>
           /\ child_pc' = "none"
           /\ ret' = FALSE
           /\ exit_path' = "map_fail"
           /\ pc' = "returned"
    /\ UNCHANGED run_frame

\* What run has built when it reaches luaL_loadbuffer (lua_backend.cpp:204-242)
LuaRunTable(ins, out) ==
    /\ dataset_info' = BuildTable(out, ins)
    /\ registry' = Populate(BuildTable(out, ins))
    /\ mm' = Zeroes(room_size(out))
    /\ shm_at_exit' = << >>

\* luaL_loadbuffer fails: lua_close, return false (lua_backend.cpp:244-250)
LuaRunLoadFail_CopiesBack ==
    /\ pc = "idle"
    /\ \E ins \in InputSeqs, out \in OutputDescs :
         \E buf \in Buffers(room_size(out)) :
           /\ LuaRunEnter(ins, out, buf, "malformed")
           /\ LuaRunTable(ins, out)
           /\ out_buf' = memcpy(buf, Zeroes(room_size(out)), room_size(out))
           /\ L_open' = FALSE
           /\ mm_mapped' = AnonymousMemoryMap_destroy(TRUE)
           /\ child_pc' = "none"
           /\ ret' = FALSE
           /\ exit_path' = "load_fail"
           /\ pc' = "returned"
    /\ UNCHANGED run_frame

LuaRunLoadFail ==
    /\ pc = "idle"
    /\ \E ins \in InputSeqs, out \in OutputDescs :
         \E buf \in Buffers(room_size(out)) :
           /\ LuaRunEnter(ins, out, buf, "malformed")
           /\ LuaRunTable(ins, out)
           /\ out_buf' = buf
           /\ L_open' = FALSE
           /\ mm_mapped' = AnonymousMemoryMap_destroy(TRUE)
           /\ child_pc' = "none"
           /\ ret' = FALSE
           /\ exit_path' = "load_fail"
           /\ pc' = "returned"
    /\ UNCHANGED run_frame

\* The return at lua_backend.cpp:251-256 with a mapping that is not owned by a
\* local object and so is left mapped
LuaRunEvalFail_Leaks ==
    /\ pc = "idle"
    /\ \E ins \in InputSeqs, out \in OutputDescs :
         \E buf \in Buffers(room_size(out)) :
           /\ LuaRunEnter(ins, out, buf, "raises")
           /\ LuaRunTable(ins, out)
           /\ out_buf' = buf
           /\ L_open' = FALSE
           /\ mm_mapped' = TRUE
           /\ child_pc' = "none"
           /\ ret' = FALSE
           /\ exit_path' = "eval_fail"
           /\ pc' = "returned"
    /\ UNCHANGED run_frame

\* lua_pcall of the loaded chunk fails: lua_close, return false
\* (lua_backend.cpp:251-256)
LuaRunEvalFail ==
    /\ pc = "idle"
    /\ \E ins \in InputSeqs, out \in OutputDescs :
         \E buf \in Buffers(room_size(out)) :
           /\ LuaRunEnter(ins, out, buf, "raises")
           /\ LuaRunTable(ins, out)
           /\ out_buf' = buf
           /\ L_open' = FALSE
           /\ mm_mapped' = AnonymousMemoryMap_destroy(TRUE)
           /\ child_pc' = "none"
           /\ ret' = FALSE
           /\ exit_path' = "eval_fail"
           /\ pc' = "returned"
    /\ UNCHANGED run_frame

\* fork() returns -1: lua_close, return ret = false (lua_backend.cpp:260-303)
LuaRunForkFail ==
    /\ pc = "idle"
    /\ \E ins \in InputSeqs, out \in OutputDescs :
         \E buf \in Buffers(room_size(out)) :
           /\ LuaRunEnter(ins, out, buf, "good")
           /\ LuaRunTable(ins, out)
           /\ out_buf' = buf
           /\ L_open' = FALSE
           /\ mm_mapped' = AnonymousMemoryMap_destroy(TRUE)
           /\ child_pc' = "none"
           /\ ret' = FALSE
           /\ exit_path' = "fork_fail"
           /\ pc' = "returned"
    /\ UNCHANGED run_frame

\* fork() succeeds: the parent enters waitpid (lua_backend.cpp:261, 292-295)
LuaRunFork ==
    /\ pc = "idle"
    /\ \E ins \in InputSeqs, out \in OutputDescs :
         \E buf \in Buffers(room_size(out)) :
           /\ LuaRunEnter(ins, out, buf, "good")
           /\ LuaRunTable(ins, out)
           /\ out_buf' = buf
           /\ L_open' = TRUE
           /\ mm_mapped' = TRUE
           /\ child_pc' = "forked"
           /\ ret' = FALSE
           /\ exit_path' = "none"
           /\ pc' = "waiting"
    /\ UNCHANGED run_frame

(***************************************************************************)
(* The forked child (lua_backend.cpp:262-291).                             *)
(***************************************************************************)
\* What belongs to the parent, which is blocked in waitpid
parent_frame == <<enable_sandbox, pc, backend, bytecode, input_datasets,
                  output_dataset, out_buf, out_buf0, mm_mapped, dataset_info,
                  registry, L_open, status, ret, exit_path, faulted, in_bufs,
                  so_symbols, hdf5_udf_data, hdf5_udf_names, hdf5_udf_types,
                  hdf5_udf_dims, udf_calls>>

child_frame == <<parent_frame, child_priv, locals, udf_i>>

\* The child process ends as `term`
ChildTerminates(term) ==
    /\ child_pc' = "terminated"
    /\ child_term' = term
    /\ shm_at_exit' = mm
    /\ got' = NoLookup

\* ready is true: no sandbox in the build, or sandbox.init succeeded
ChildSandboxReady ==
    /\ child_pc = "forked"
    /\ child_pc' = "init"
    /\ UNCHANGED <<child_term, shm_at_exit, entry_done, got, mm>>
    /\ UNCHANGED child_frame
    /\ UNCHANGED run_frame

\* sandbox.init(filterpath) returns false: the if (ready) block is skipped and
\* control reaches _exit(0) (lua_backend.cpp:265-269, 290)
ChildSandboxFail ==
    /\ child_pc = "forked"
    /\ enable_sandbox
    /\ ChildTerminates([kind |-> "exit", code |-> 0])
    /\ UNCHANGED <<entry_done, mm>>
    /\ UNCHANGED child_frame
    /\ UNCHANGED run_frame

\* lua_pcall of init succeeds (lua_backend.cpp:272-274)
ChildInitOk ==
    /\ child_pc = "init"
    /\ child_pc' = "udf"
    /\ UNCHANGED <<child_term, shm_at_exit, entry_done, got, mm>>
    /\ UNCHANGED child_frame
    /\ UNCHANGED run_frame

\* lua_pcall of init fails: lua_close, _exit(1) (lua_backend.cpp:274-279)
ChildInitFail ==
    /\ child_pc = "init"
    /\ ChildTerminates([kind |-> "exit", code |-> 1])
    /\ UNCHANGED <<entry_done, mm>>
    /\ UNCHANGED child_frame
    /\ UNCHANGED run_frame

\* dynamic_dataset stores byte v at offset i-1 of the buffer lib.getData gave
\* it for the output dataset, which is the shared mapping
ChildWrite ==
    /\ \E i \in DOMAIN mm, v \in Byte :
            /\ child_pc = "udf"
            /\ bytecode = "good"
            /\ mm' = [mm EXCEPT ![i] = v]
            /\ UNCHANGED <<child_pc, child_term, shm_at_exit, entry_done, got>>
            /\ UNCHANGED child_frame
    /\ UNCHANGED run_frame

\* dynamic_dataset calls lib.getData/getType/getCast/getDims with name q
ChildLookup ==
    /\ \E q \in QueryNames :
            /\ child_pc = "udf"
            /\ bytecode = "good"
            /\ got' = [q |-> q,
                       index |-> index_of(registry, q),
                       data |-> luaGetData(registry, q),
                       type |-> luaGetType(registry, q),
                       cast |-> luaGetCast(registry, q),
                       dims |-> luaGetDims(registry, q)]
            /\ UNCHANGED <<child_pc, child_term, shm_at_exit, entry_done, mm>>
            /\ UNCHANGED child_frame
    /\ UNCHANGED run_frame

(***************************************************************************)
(* The user functions of the README ("C as the sum of A and B", "B and C   *)
(* as variations of A") run by LuaBackend::run.                            *)
(***************************************************************************)
ExampleKinds == {"sum", "variations"}

\* A 2x2 dataset of signed 32-bit integers named nm, its buffer at ptr
Desc32(nm, ptr) ==
    [name |-> nm, data |-> ptr, dimensions_str |-> "2x2", datatype |-> "int32",
     dimensions |-> <<2, 2>>, grid |-> 4]

\* A 32-bit integer in memory, least significant byte first
le32(v) ==
    <<v % 256, (v \div 256) % 256, (v \div 65536) % 256,
      (v \div 16777216) % 256>>

\* The bytes of a grid of four 32-bit integers
Ints32(g) == le32(g[1]) \o le32(g[2]) \o le32(g[3]) \o le32(g[4])

GridA == <<1, 2, 3, 4>>
GridB == <<10, 20, 30, 40>>

\* What the caller's output buffer holds before the call
StaleGrids == {<<0, 0, 0, 0>>, <<7, 7, 7, 7>>}

\* run called for dataset C with the function that sums A and B
SumCalls ==
    {[bc |-> "sum", out |-> Desc32("C", OutPtr),
      ins |-> <<Desc32(nms[1], InPtr(1)), Desc32(nms[2], InPtr(2))>>,
      bufs |-> <<Ints32(IF nms[1] = "A" THEN GridA ELSE GridB),
                 Ints32(IF nms[2] = "A" THEN GridA ELSE GridB)>>,
      buf |-> Ints32(g)] : nms \in {<<"A", "B">>, <<"B", "A">>}, g \in StaleGrids}

\* run called for dataset o (B or C) with the function that writes both, with
\* A as the only input, or with A and a scratch buffer for the other dataset
VariationCalls ==
    {[bc |-> "variations", out |-> Desc32(o, OutPtr),
      ins |-> <<Desc32("A", InPtr(1))>>,
      bufs |-> <<Ints32(GridA)>>,
      buf |-> Ints32(g)] : o \in {"B", "C"}, g \in StaleGrids}
    \cup
    {[bc |-> "variations", out |-> Desc32(o, OutPtr),
      ins |-> <<Desc32("A", InPtr(1)),
                Desc32(IF o = "B" THEN "C" ELSE "B", InPtr(2))>>,
      bufs |-> <<Ints32(GridA), Ints32(<<0, 0, 0, 0>>)>>,
      buf |-> Ints32(g)] : o \in {"B", "C"}, g \in StaleGrids}

ExampleCalls == SumCalls \cup VariationCalls

\* fork() succeeds in a call of the README (lua_backend.cpp:196-261); the
\* child starts with a copy of the caller's memory
LuaRunForkExample ==
    /\ pc = "idle"
    /\ \E call \in ExampleCalls :
        /\ backend' = "lua"
        /\ bytecode' = call.bc
        /\ input_datasets' = call.ins
        /\ output_dataset' = call.out
        /\ out_buf0' = call.buf
        /\ out_buf' = call.buf
        /\ in_bufs' = call.bufs
        /\ LuaRunTable(call.ins, call.out)
        /\ child_priv' =
             [p \in {OutPtr} \cup {InPtr(k) : k \in DOMAIN call.ins} |->
                 IF p = OutPtr THEN call.buf ELSE call.bufs[p[2]]]
    /\ locals' = << >>
    /\ udf_i' = 0
    /\ status' = 0
    /\ child_term' = NoTerm
    /\ entry_done' = FALSE
    /\ got' = NoLookup
    /\ L_open' = TRUE
    /\ mm_mapped' = TRUE
    /\ child_pc' = "forked"
    /\ ret' = FALSE
    /\ exit_path' = "none"
    /\ pc' = "waiting"
    /\ UNCHANGED <<enable_sandbox, faulted, so_symbols, hdf5_udf_data,
                   hdf5_udf_names, hdf5_udf_types, hdf5_udf_dims, udf_calls>>
    /\ UNCHANGED run_frame

\* The names both functions pass to lib.getData, in program order:
\* a_data, b_data, c_data
UdfNames == <<"A", "B", "C">>

\* The dataset whose lib.getDims gives the loop bounds
DimsName(bc) == IF bc = "sum" THEN "C" ELSE "A"

\* The product of the two dimensions of a dimension string
GridElements(dims) == IF dims = "2x2" THEN 4 ELSE 0

\* Iterations of the loop of the function being run
LoopCount == GridElements(luaGetDims(registry, DimsName(bytecode)))

\* The pointer refers to memory of the child
Mapped(p) == p = ShmPtr \/ p \in DOMAIN child_priv

\* p[i] read as a 32-bit integer
Load32(p, i) ==
    LET b == IF p = ShmPtr THEN mm ELSE child_priv[p]
    IN  b[4 * i + 1] + 256 * b[4 * i + 2] + 65536 * b[4 * i + 3]
          + 16777216 * b[4 * i + 4]

\* The buffer b after element i is set to v
Store32(b, i, v) ==
    [j \in DOMAIN b |->
        IF j \in (4 * i + 1)..(4 * i + 4) THEN le32(v)[j - 4 * i] ELSE b[j]]

\* The shared mapping m after p[i] = v
StoreShm(m, p, i, v) == IF p = ShmPtr THEN Store32(m, i, v) ELSE m

\* The child's private memory pm after p[i] = v
StorePriv(pm, p, i, v) ==
    IF p # ShmPtr /\ p \in DOMAIN pm
    THEN [pm EXCEPT ![p] = Store32(pm[p], i, v)]
    ELSE pm

\* The user function has run to its end
UdfFinished ==
    bytecode \in ExampleKinds =>
        (Len(locals) = Len(UdfNames) /\ udf_i = LoopCount)

\* local x_data = lib.getData(name), for the next of the three names
ChildExampleLookup ==
    /\ child_pc = "udf"
    /\ bytecode \in ExampleKinds
    /\ Len(locals) < Len(UdfNames)
    /\ LET q == UdfNames[Len(locals) + 1] IN
        /\ locals' = Append(locals, luaGetData(registry, q))
        /\ got' = [q |-> q,
                   index |-> index_of(registry, q),
                   data |-> luaGetData(registry, q),
                   type |-> luaGetType(registry, q),
                   cast |-> luaGetCast(registry, q),
                   dims |-> luaGetDims(registry, q)]
    /\ UNCHANGED <<child_pc, child_term, shm_at_exit, entry_done, mm,
                   child_priv, udf_i>>
    /\ UNCHANGED parent_frame
    /\ UNCHANGED run_frame

\* One iteration of the loop: c_data[i] = a_data[i] + b_data[i], or
\* b_data[i] = a_data[i] * 2; c_data[i] = a_data[i] * 3
ChildExampleElement ==
    /\ child_pc = "udf"
    /\ bytecode \in ExampleKinds
    /\ Len(locals) = Len(UdfNames)
    /\ udf_i < LoopCount
    /\ \A j \in DOMAIN locals : Mapped(locals[j])
    /\ LET a == Load32(locals[1], udf_i) IN
        IF bytecode = "sum"
        THEN LET v == a + Load32(locals[2], udf_i) IN
             /\ mm' = StoreShm(mm, locals[3], udf_i, v)
             /\ child_priv' = StorePriv(child_priv, locals[3], udf_i, v)
        ELSE /\ mm' = StoreShm(StoreShm(mm, locals[2], udf_i, a * 2),
                               locals[3], udf_i, a * 3)
             /\ child_priv' = StorePriv(StorePriv(child_priv, locals[2],
                                                  udf_i, a * 2),
                                        locals[3], udf_i, a * 3)
    /\ udf_i' = udf_i + 1
    /\ UNCHANGED <<child_pc, child_term, shm_at_exit, entry_done, got, locals>>
    /\ UNCHANGED parent_frame
    /\ UNCHANGED run_frame

\* An iteration that goes through a pointer lib.getData returned as NULL: the
\* stores before the faulting access are done, then the child is killed by
\* SIGSEGV or the access raises a Lua error and the child calls _exit(1)
\* (lua_backend.cpp:282-288)
ChildExampleFault ==
    /\ child_pc = "udf"
    /\ bytecode \in ExampleKinds
    /\ Len(locals) = Len(UdfNames)
    /\ udf_i < LoopCount
    /\ \E j \in DOMAIN locals : ~Mapped(locals[j])
    /\ IF bytecode = "variations" /\ Mapped(locals[1]) /\ Mapped(locals[2])
       THEN LET v == Load32(locals[1], udf_i) * 2 IN
            /\ mm' = StoreShm(mm, locals[2], udf_i, v)
            /\ child_priv' = StorePriv(child_priv, locals[2], udf_i, v)
       ELSE UNCHANGED <<mm, child_priv>>
    /\ \E term \in {[kind |-> "exit", code |-> 1],
                    [kind |-> "signal", code |-> 11]} :
        /\ child_pc' = "terminated"
        /\ child_term' = term
    /\ shm_at_exit' = mm'
    /\ got' = NoLookup
    /\ UNCHANGED <<entry_done, locals, udf_i>>
    /\ UNCHANGED parent_frame
    /\ UNCHANGED run_frame

\* lua_pcall of dynamic_dataset returns 0: _exit(0) (lua_backend.cpp:282-290)
ChildUdfReturn ==
    /\ child_pc = "udf"
    /\ UdfFinished
    /\ entry_done' = TRUE
    /\ ChildTerminates([kind |-> "exit", code |-> 0])
    /\ UNCHANGED mm
    /\ UNCHANGED child_frame
    /\ UNCHANGED run_frame

\* lua_pcall of dynamic_dataset fails: lua_close, _exit(1)
\* (lua_backend.cpp:283-288)
ChildUdfError ==
    /\ child_pc = "udf"
    /\ ChildTerminates([kind |-> "exit", code |-> 1])
    /\ UNCHANGED <<entry_done, mm>>
    /\ UNCHANGED child_frame
    /\ UNCHANGED run_frame

\* The child is killed by a signal while it runs Lua code (seccomp, abort)
ChildKilled ==
    /\ \E sig \in Signals :
            /\ child_pc \in {"init", "udf"}
            /\ ChildTerminates([kind |-> "signal", code |-> sig])
            /\ UNCHANGED <<entry_done, mm>>
            /\ UNCHANGED child_frame
    /\ UNCHANGED run_frame

(***************************************************************************)
(* LuaBackend::run, parent side after fork (lua_backend.cpp:292-304).      *)
(***************************************************************************)
\* The user function aborted or crashed in the child
ChildFault(term) == term.kind = "signal" \/ (term.kind = "exit" /\ term.code # 0)

\* The join with a result that stays false once an invocation has failed
LuaRunJoin_Sticky ==
    /\ pc = "waiting"
    /\ child_pc = "terminated"
    /\ status' = WaitStatus(child_term)
    /\ ret' = (RetFromStatus(WaitStatus(child_term)) /\ ~faulted)
    /\ out_buf' = memcpy(out_buf, mm, room_size(output_dataset))
    /\ L_open' = FALSE
    /\ mm_mapped' = AnonymousMemoryMap_destroy(mm_mapped)
    /\ child_pc' = "none"
    /\ exit_path' = "joined"
    /\ faulted' = (faulted \/ ChildFault(child_term))
    /\ pc' = "returned"
    /\ UNCHANGED <<enable_sandbox, backend, bytecode, input_datasets,
                   output_dataset, out_buf0, mm, dataset_info, registry,
                   child_term, shm_at_exit, entry_done, got, so_symbols,
                   hdf5_udf_data, hdf5_udf_names, hdf5_udf_types,
                   hdf5_udf_dims, udf_calls>>
    /\ UNCHANGED <<in_bufs, child_priv, locals, udf_i>>
    /\ UNCHANGED run_frame

\* The join with waitpid(pid, &status, WNOHANG): the parent goes on whether or
\* not the child has terminated
LuaRunJoin_NoHang ==
    /\ pc = "waiting"
    /\ child_pc # "none"
    /\ status' = WaitStatus(child_term)
    /\ ret' = RetFromStatus(WaitStatus(child_term))
    /\ out_buf' = memcpy(out_buf, mm, room_size(output_dataset))
    /\ L_open' = FALSE
    /\ mm_mapped' = AnonymousMemoryMap_destroy(mm_mapped)
    /\ child_pc' = "none"
    /\ exit_path' = "joined"
    /\ faulted' = (faulted \/ ChildFault(child_term))
    /\ pc' = "returned"
    /\ UNCHANGED <<enable_sandbox, backend, bytecode, input_datasets,
                   output_dataset, out_buf0, mm, dataset_info, registry,
                   child_term, shm_at_exit, entry_done, got, so_symbols,
                   hdf5_udf_data, hdf5_udf_names, hdf5_udf_types,
                   hdf5_udf_dims, udf_calls>>
    /\ UNCHANGED <<in_bufs, child_priv, locals, udf_i>>
    /\ UNCHANGED run_frame

\* The parent's path after waitpid if the input buffers were shared with the
\* child as the output mapping is: the child's stores to them reach the host
LuaRunJoin_SharedInputs ==
    /\ pc = "waiting"
    /\ child_pc = "terminated"
    /\ status' = WaitStatus(child_term)
    /\ ret' = RetFromStatus(WaitStatus(child_term))
    /\ out_buf' = memcpy(out_buf, mm, room_size(output_dataset))
    /\ in_bufs' = [k \in DOMAIN in_bufs |-> child_priv[InPtr(k)]]
    /\ L_open' = FALSE
    /\ mm_mapped' = AnonymousMemoryMap_destroy(mm_mapped)
    /\ child_pc' = "none"
    /\ exit_path' = "joined"
    /\ faulted' = (faulted \/ ChildFault(child_term))
    /\ pc' = "returned"
    /\ UNCHANGED <<enable_sandbox, backend, bytecode, input_datasets,
                   output_dataset, out_buf0, mm, dataset_info, registry,
                   child_term, shm_at_exit, entry_done, got, so_symbols,
                   hdf5_udf_data, hdf5_udf_names, hdf5_udf_types,
                   hdf5_udf_dims, udf_calls>>
    /\ UNCHANGED <<child_priv, locals, udf_i>>
    /\ UNCHANGED run_frame

\* waitpid returns, ret is computed, the mapping is copied back, lua_close,
\* return ret; mm's destructor releases the mapping
LuaRunJoin ==
    /\ pc = "waiting"
    /\ child_pc = "terminated"
    /\ status' = WaitStatus(child_term)
    /\ ret' = RetFromStatus(WaitStatus(child_term))
    /\ out_buf' = memcpy(out_buf, mm, room_size(output_dataset))
    /\ L_open' = FALSE
    /\ mm_mapped' = AnonymousMemoryMap_destroy(mm_mapped)
    /\ child_pc' = "none"
    /\ exit_path' = "joined"
    /\ faulted' = (faulted \/ ChildFault(child_term))
    /\ pc' = "returned"
    /\ UNCHANGED <<enable_sandbox, backend, bytecode, input_datasets,
                   output_dataset, out_buf0, mm, dataset_info, registry,
                   child_term, shm_at_exit, entry_done, got, so_symbols,
                   hdf5_udf_data, hdf5_udf_names, hdf5_udf_types,
                   hdf5_udf_dims, udf_calls>>
    /\ UNCHANGED <<in_bufs, child_priv, locals, udf_i>>
    /\ UNCHANGED run_frame

(***************************************************************************)
(* CppBackend::run (main.cpp:180-235), in the host process.                *)
(***************************************************************************)
RequiredSymbols == {"dynamic_dataset", "hdf5_udf_data", "hdf5_udf_names",
                    "hdf5_udf_types", "hdf5_udf_dims"}

\* Libraries handed to run: all symbols exported, or one of them missing
SharedLibs == {RequiredSymbols} \cup {RequiredSymbols \ {x} : x \in RequiredSymbols}

\* shlib.loadsym(name): NULL when the library does not export name
loadsym(lib, name) == IF name \in lib THEN <<"sym", name>> ELSE NULL

\* main.cpp:217-221: dataset_info of CppBackend::run
CppTable(out, ins) == <<out>> \o ins

\* The state every path of CppBackend::run starts from
CppRunEnter(ins, out, buf, lib) ==
    /\ pc = "idle"
    /\ backend' = "cpp"
    /\ so_symbols' = lib
    /\ input_datasets' = ins
    /\ output_dataset' = out
    /\ out_buf0' = buf
    /\ UNCHANGED <<enable_sandbox, bytecode, mm_mapped, mm, registry, L_open,
                   status, faulted, child_pc, child_term, shm_at_exit,
                   entry_done, got, in_bufs, child_priv, locals, udf_i>>

\* A return before the containers are touched
CppRunAbort(path) ==
    /\ dataset_info' = << >>
    /\ hdf5_udf_data' = << >>
    /\ hdf5_udf_names' = << >>
    /\ hdf5_udf_types' = << >>
    /\ hdf5_udf_dims' = << >>
    /\ udf_calls' = 0
    /\ ret' = FALSE
    /\ exit_path' = path
    /\ pc' = "returned"

\* writeToDisk returns "": return false (main.cpp:192-197)
CppRunWriteFail ==
    /\ pc = "idle"
    /\ \E ins \in InputSeqs, out \in OutputDescs, lib \in SharedLibs :
         \E buf \in Buffers(room_size(out)) :
           /\ CppRunEnter(ins, out, buf, lib)
           /\ out_buf' = buf
           /\ CppRunAbort("write_fail")
    /\ UNCHANGED run_frame

\* shlib.open() fails: return false (main.cpp:200-202)
CppRunOpenFail ==
    /\ pc = "idle"
    /\ \E ins \in InputSeqs, out \in OutputDescs, lib \in SharedLibs :
         \E buf \in Buffers(room_size(out)) :
           /\ CppRunEnter(ins, out, buf, lib)
           /\ out_buf' = buf
           /\ CppRunAbort("open_fail")
    /\ UNCHANGED run_frame

\* The test at main.cpp:214 reduced to the entry point
AllResolved_EntryOnly(lib) == loadsym(lib, "dynamic_dataset") # NULL

\* The test at main.cpp:214
AllResolved(lib) == \A name \in RequiredSymbols : loadsym(lib, name) # NULL

\* A symbol is not resolved: return false (main.cpp:205-215)
CppRunSymFail ==
    /\ pc = "idle"
    /\ \E ins \in InputSeqs, out \in OutputDescs, lib \in SharedLibs :
         \E buf \in Buffers(room_size(out)) :
           /\ ~AllResolved(lib)
           /\ CppRunEnter(ins, out, buf, lib)
           /\ out_buf' = buf
           /\ CppRunAbort("sym_fail")
    /\ UNCHANGED run_frame

\* The containers after the loop at main.cpp:223-229
CppPopulate(out, ins) ==
    LET tab == CppTable(out, ins)
    IN  /\ dataset_info' = tab
        /\ hdf5_udf_data' = [i \in DOMAIN tab |-> tab[i].data]
        /\ hdf5_udf_names' = [i \in DOMAIN tab |-> tab[i].name]
        /\ hdf5_udf_types' = [i \in DOMAIN tab |-> getDatatype(tab[i])]
        /\ hdf5_udf_dims' = [i \in DOMAIN tab |-> tab[i].dimensions]

\* All symbols resolve, udf() runs in the host, writes the output buffer in
\* place and returns: return true (main.cpp:217-234)
CppRunInvoke ==
    /\ pc = "idle"
    /\ \E ins \in InputSeqs, out \in OutputDescs, lib \in SharedLibs :
         \E buf \in Buffers(room_size(out)), written \in Buffers(room_size(out)) :
           /\ AllResolved(lib)
           /\ CppRunEnter(ins, out, buf, lib)
           /\ CppPopulate(out, ins)
           /\ udf_calls' = 1
           /\ out_buf' = written
           /\ ret' = TRUE
           /\ exit_path' = "invoked"
           /\ pc' = "returned"
    /\ UNCHANGED run_frame

\* All symbols resolve and udf() faults: the fault is the host's own
CppRunCrash ==
    /\ pc = "idle"
    /\ \E ins \in InputSeqs, out \in OutputDescs, lib \in SharedLibs :
         \E buf \in Buffers(room_size(out)), written \in Buffers(room_size(out)) :
           /\ AllResolved(lib)
           /\ CppRunEnter(ins, out, buf, lib)
           /\ CppPopulate(out, ins)
           /\ udf_calls' = 1
           /\ out_buf' = written
           /\ ret' = FALSE
           /\ exit_path' = "crashed"
           /\ pc' = "dead"
    /\ UNCHANGED run_frame

(***************************************************************************)
(* The host process calling run.                                           *)
(***************************************************************************)
\* The caller takes the result of run and goes on; what the finished
\* invocation left behind is gone
HostContinue ==
    /\ pc = "returned"
    /\ pc' = "idle"
    /\ backend' = "none"
    /\ bytecode' = "good"
    /\ input_datasets' = << >>
    /\ output_dataset' = OutputDesc("C", 1)
    /\ out_buf' = Zeroes(1)
    /\ out_buf0' = Zeroes(1)
    /\ mm_mapped' = FALSE
    /\ mm' = << >>
    /\ dataset_info' = << >>
    /\ registry' = << >>
    /\ L_open' = FALSE
    /\ status' = 0
    /\ ret' = FALSE
    /\ exit_path' = "none"
    /\ child_pc' = "none"
    /\ child_term' = NoTerm
    /\ shm_at_exit' = << >>
    /\ entry_done' = FALSE
    /\ got' = NoLookup
    /\ in_bufs' = << >>
    /\ child_priv' = << >>
    /\ locals' = << >>
    /\ udf_i' = 0
    /\ so_symbols' = RequiredSymbols
    /\ hdf5_udf_data' = << >>
    /\ hdf5_udf_names' = << >>
    /\ hdf5_udf_types' = << >>
    /\ hdf5_udf_dims' = << >>
    /\ udf_calls' = 0
    /\ UNCHANGED <<enable_sandbox, faulted>>
    /\ UNCHANGED run_frame

RunStep ==
    \/ LuaRunMapFail
    \/ LuaRunLoadFail
    \/ LuaRunEvalFail
    \/ LuaRunForkFail
    \/ LuaRunFork
    \/ ChildSandboxReady
    \/ ChildSandboxFail
    \/ ChildInitOk
    \/ ChildInitFail
    \/ ChildWrite
    \/ ChildLookup
    \/ ChildUdfReturn
    \/ ChildUdfError
    \/ ChildKilled
    \/ LuaRunForkExample
    \/ ChildExampleLookup
    \/ ChildExampleElement
    \/ ChildExampleFault
    \/ LuaRunJoin
    \/ CppRunWriteFail
    \/ CppRunOpenFail
    \/ CppRunSymFail
    \/ CppRunInvoke
    \/ CppRunCrash
    \/ HostContinue

(***************************************************************************)
(* LuaBackend::run called for a user function that reads many datasets:    *)
(* the registry keys of a long table (lua_backend.cpp:32-52, 204-242).     *)
(***************************************************************************)
ManyInputs == 100   \* input datasets of the longest call

Digit(k) == <<"0", "1", "2", "3", "4", "5", "6", "7", "8", "9">>[k + 1]

\* The name of the k-th input dataset: d001, d002, ...
DsName(k) ==
    "d" \o Digit(k \div 100) \o Digit((k \div 10) % 10) \o Digit(k % 10)

\* The input descriptors of a call with one input, or with nearly ManyInputs
ManyInputSeqs ==
    {[k \in 1..n |-> Desc32(DsName(k), InPtr(k))] :
        n \in {1} \cup (ManyInputs - 3)..ManyInputs}

\* fork() succeeds in a call with the inputs ins (lua_backend.cpp:196-261)
LuaRunForkMany ==
    /\ pc = "idle"
    /\ \E ins \in ManyInputSeqs, buf \in {Ints32(g) : g \in StaleGrids} :
        /\ LuaRunEnter(ins, Desc32("C", OutPtr), buf, "good")
        /\ LuaRunTable(ins, Desc32("C", OutPtr))
        /\ out_buf' = buf
    /\ L_open' = TRUE
    /\ mm_mapped' = TRUE
    /\ child_pc' = "forked"
    /\ ret' = FALSE
    /\ exit_path' = "none"
    /\ pc' = "waiting"
    /\ UNCHANGED run_frame

\* The names a user function asks for: the output dataset, the first and the
\* last input dataset, the empty name, and a name run was not given
LookupNames(tab) ==
    {tab[i].name : i \in {1, 2, Len(tab) - 1, Len(tab)}} \cup {"Z"}

\* dynamic_dataset calls lib.getData/getType/getCast/getDims with the name of
\* one of the datasets run was given, or with a name it was not given. When
\* the registry slot index_of reads holds no string, strcmp is handed NULL:
\* the child is killed by SIGSEGV or the comparison reports a mismatch
\* (lua_backend.cpp:38-52)
ChildLookupMany ==
    /\ child_pc = "udf"
    /\ bytecode = "good"
    /\ \E q \in LookupNames(dataset_info) :
        \/ /\ got' = [q |-> q,
                      index |-> index_of(registry, q),
                      data |-> luaGetData(registry, q),
                      type |-> luaGetType(registry, q),
                      cast |-> luaGetCast(registry, q),
                      dims |-> luaGetDims(registry, q)]
           /\ UNCHANGED <<child_pc, child_term, shm_at_exit>>
        \/ /\ index_of(registry, q) = StrcmpNull
           /\ ChildTerminates([kind |-> "signal", code |-> 11])
    /\ UNCHANGED <<entry_done, mm>>
    /\ UNCHANGED child_frame
    /\ UNCHANGED run_frame

RegistryStep ==
    \/ LuaRunForkMany
    \/ ChildSandboxReady
    \/ ChildInitOk
    \/ ChildLookupMany
    \/ ChildUdfReturn
    \/ LuaRunJoin
    \/ HostContinue

(***************************************************************************)
(* compile (lua_backend.cpp:120-167, main.cpp:58-141).                     *)
(***************************************************************************)
Placeholder == "user_callback_placeholder"
UdfSource == "udf_source"

\* Contents a template file can have; << >> is what reading a file that does
\* not exist yields
Templates == {<< >>, <<"head", "tail">>, <<"head", Placeholder, "tail">>}

CompileArgs ==
    [udf_readable : BOOLEAN, template_file : {"", "udf_template"},
     template : Templates, tmp_ok : BOOLEAN]

\* Contents the toolchain can write to its output file
Artifacts == {<< >>, <<1>>, <<1, 2>>}
StaleArtifact == <<9>>

NoFile == [exists |-> FALSE, data |-> << >>]
File(d) == [exists |-> TRUE, data |-> d]

npos == -1

\* std::string::find of one token in a tokenised text: its 0-based position
find(tpl, token) ==
    IF \E i \in DOMAIN tpl : tpl[i] = token
    THEN (CHOOSE i \in DOMAIN tpl :
            tpl[i] = token /\ \A j \in 1..(i - 1) : tpl[j] # token) - 1
    ELSE npos

\* udf.replace(start, placeholder.length(), inputFileBuffer)
replace(tpl, start, source) ==
    [i \in DOMAIN tpl |-> IF i = start + 1 THEN source ELSE tpl[i]]

\* Backend::assembleUDF: the path of the assembled file, "" on failure
assembleUDF(args) ==
    IF \/ ~args.udf_readable
       \/ args.template_file = ""
       \/ find(args.template, Placeholder) = npos
       \/ ~args.tmp_ok
    THEN ""
    ELSE "tmp.lua"

\* CppBackend::writeToDisk: the path of the temporary file, "" on failure
writeToDisk(args) == IF args.tmp_ok THEN "tmp.cpp" ELSE ""

compile_frame == <<run_vars, scan_vars, pipe_vars>>

\* A return of compile before fork, with artifact `result`
CompileReturnEarly(b, args, path) ==
    /\ c_backend' = b
    /\ c_args' = args
    /\ c_result' = << >>
    /\ c_path' = path
    /\ c_pc' = "returned"
    /\ tool_pc' = "none"
    /\ tool_term' = NoTerm
    /\ stat_found' = FALSE
    /\ UNCHANGED <<fs_output, fs_source>>
    /\ UNCHANGED compile_frame

\* LuaBackend::compile: assembleUDF returned "" (lua_backend.cpp:122-128)
LuaCompileAssembleFail ==
    /\ c_pc = "idle"
    /\ \E args \in CompileArgs :
        /\ assembleUDF(args) = ""
        /\ CompileReturnEarly("lua", args, "assemble_fail")

\* CppBackend::compile: the udf file cannot be opened (main.cpp:61-66)
CppCompileNoUdf ==
    /\ c_pc = "idle"
    /\ \E args \in CompileArgs :
        /\ ~args.udf_readable
        /\ CompileReturnEarly("cpp", args, "no_udf")

\* CppBackend::compile: template_file is empty (main.cpp:72-76)
CppCompileNoTemplate ==
    /\ c_pc = "idle"
    /\ \E args \in CompileArgs :
        /\ args.udf_readable
        /\ args.template_file = ""
        /\ CompileReturnEarly("cpp", args, "no_template")

\* CppBackend::compile: the placeholder is not found (main.cpp:77-90)
CppCompileNoPlaceholder ==
    /\ c_pc = "idle"
    /\ \E args \in CompileArgs :
        /\ args.udf_readable
        /\ args.template_file # ""
        /\ find(args.template, Placeholder) = npos
        /\ CompileReturnEarly("cpp", args, "no_placeholder")

\* CppBackend::compile: writeToDisk returned "" (main.cpp:93-101)
CppCompileTmpFail ==
    /\ c_pc = "idle"
    /\ \E args \in CompileArgs :
        /\ args.udf_readable
        /\ args.template_file # ""
        /\ find(args.template, Placeholder) # npos
        /\ writeToDisk(args) = ""
        /\ CompileReturnEarly("cpp", args, "tmp_fail")

\* Both backends get past the checks above exactly when this holds
SourceAssembled(b, args) ==
    IF b = "lua" THEN assembleUDF(args) # ""
    ELSE /\ args.udf_readable
         /\ args.template_file # ""
         /\ find(args.template, Placeholder) # npos
         /\ writeToDisk(args) # ""

\* The complete code written to the temporary source file
completeCode(args) ==
    replace(args.template, find(args.template, Placeholder), UdfSource)

\* fork() returns -1: "Failed to execute", return the empty artifact
\* (lua_backend.cpp:131, 165-166; main.cpp:104, 139-140)
CompileForkFail ==
    /\ c_pc = "idle"
    /\ \E b \in {"lua", "cpp"}, args \in CompileArgs :
        /\ SourceAssembled(b, args)
        /\ c_backend' = b
        /\ c_args' = args
        /\ fs_source' = File(completeCode(args))
        /\ c_result' = << >>
        /\ c_path' = "fork_fail"
        /\ c_pc' = "returned"
        /\ tool_pc' = "none"
        /\ tool_term' = NoTerm
        /\ stat_found' = FALSE
        /\ UNCHANGED fs_output
        /\ UNCHANGED compile_frame

\* fork() succeeds: the parent enters wait4
\* (lua_backend.cpp:131, 145-149; main.cpp:104, 123-127)
CompileFork ==
    /\ c_pc = "idle"
    /\ \E b \in {"lua", "cpp"}, args \in CompileArgs :
        /\ SourceAssembled(b, args)
        /\ c_backend' = b
        /\ c_args' = args
        /\ fs_source' = File(completeCode(args))
        /\ c_result' = << >>
        /\ c_path' = "none"
        /\ c_pc' = "waiting"
        /\ tool_pc' = "forked"
        /\ tool_term' = NoTerm
        /\ stat_found' = FALSE
        /\ UNCHANGED fs_output
        /\ UNCHANGED compile_frame

\* Child: execvp fails and returns; control leaves the if, prints "Failed to
\* execute" and returns the empty artifact to the caller, in the child
\* (lua_backend.cpp:143-144, 165-166; main.cpp:121-122, 139-140)
ToolExecFail ==
    /\ tool_pc = "forked"
    /\ tool_pc' = "returned"
    /\ UNCHANGED <<c_pc, c_backend, c_args, fs_output, fs_source, tool_term,
                   stat_found, c_result, c_path>>
    /\ UNCHANGED compile_frame

\* The child that returned from compile ends, with whatever status the
\* caller's code exits with
ToolChildExits ==
    /\ tool_pc = "returned"
    /\ \E code \in {0, 1} :
        /\ tool_term' = [kind |-> "exit", code |-> code]
        /\ tool_pc' = "terminated"
    /\ UNCHANGED <<c_pc, c_backend, c_args, fs_output, fs_source, stat_found,
                   c_result, c_path>>
    /\ UNCHANGED compile_frame

\* Child: execvp succeeds; the toolchain leaves the output file alone, writes
\* it or removes it, and terminates
ToolRuns ==
    /\ tool_pc = "forked"
    /\ \E effect \in {"none", "write", "remove"}, data \in Artifacts,
          term \in {[kind |-> "exit", code |-> 0], [kind |-> "exit", code |-> 1],
                    [kind |-> "signal", code |-> 6]} :
        /\ fs_output' = CASE effect = "none" -> fs_output
                          [] effect = "write" -> File(data)
                          [] effect = "remove" -> NoFile
        /\ tool_term' = term
        /\ tool_pc' = "terminated"
    /\ UNCHANGED <<c_pc, c_backend, c_args, fs_source, stat_found, c_result,
                   c_path>>
    /\ UNCHANGED compile_frame

\* The parent's path after wait4 without the unlink of the source file
CompileJoin_KeepsSource ==
    /\ c_pc = "waiting"
    /\ tool_pc = "terminated"
    /\ stat_found' = fs_output.exists
    /\ c_result' = IF fs_output.exists THEN fs_output.data ELSE << >>
    /\ fs_output' = NoFile
    /\ fs_source' = fs_source
    /\ c_path' = "joined"
    /\ c_pc' = "returned"
    /\ tool_pc' = "none"
    /\ UNCHANGED <<c_backend, c_args, tool_term>>
    /\ UNCHANGED compile_frame

\* Parent: wait4 returns; if stat finds the output file its contents become
\* the artifact and it is unlinked; the source file is unlinked; return
\* (lua_backend.cpp:148-163; main.cpp:126-137)
CompileJoin ==
    /\ c_pc = "waiting"
    /\ tool_pc = "terminated"
    /\ stat_found' = fs_output.exists
    /\ c_result' = IF fs_output.exists THEN fs_output.data ELSE << >>
    /\ fs_output' = NoFile
    /\ fs_source' = NoFile
    /\ c_path' = "joined"
    /\ c_pc' = "returned"
    /\ tool_pc' = "none"
    /\ UNCHANGED <<c_backend, c_args, tool_term>>
    /\ UNCHANGED compile_frame

\* The caller takes the artifact and goes on; the files stay as they are
CompileContinue ==
    /\ c_pc = "returned"
    /\ c_pc' = "idle"
    /\ c_backend' = "none"
    /\ c_args' = [udf_readable |-> TRUE, template_file |-> "udf_template",
                  template |-> << >>, tmp_ok |-> TRUE]
    /\ tool_pc' = "none"
    /\ tool_term' = NoTerm
    /\ stat_found' = FALSE
    /\ c_result' = << >>
    /\ c_path' = "none"
    /\ UNCHANGED <<fs_output, fs_source>>
    /\ UNCHANGED compile_frame

CompileStep ==
    \/ LuaCompileAssembleFail
    \/ CppCompileNoUdf
    \/ CppCompileNoTemplate
    \/ CppCompileNoPlaceholder
    \/ CppCompileTmpFail
    \/ CompileForkFail
    \/ CompileFork
    \/ ToolExecFail
    \/ ToolChildExits
    \/ ToolRuns
    \/ CompileJoin
    \/ CompileContinue

(***************************************************************************)
(* udfDatasetNames (lua_backend.cpp:307-357, main.cpp:288-301).            *)
(* A line is a sequence of characters; size_t values are kept modulo 2^64  *)
(* with npos = 2^64 - 1 written -1, so that x + npos + 1 = x.            *)
(***************************************************************************)
MaxLines == 3       \* lines of a scanned source text
MaxLevel == 5       \* '=' signs of the longest delimiter, "--[=====["

Q == "\""
Marker == <<"l", "i", "b", ".", "g", "e", "t", "D", "a", "t", "a">>
Dashes == <<"-", "-">>
Equals(k) == [i \in 1..k |-> "="]
OpenDelim(k) == <<"-", "-", "[">> \o Equals(k) \o <<"[">>
CloseDelim(k) == <<"]">> \o Equals(k) \o <<"]">>

\* std::string::find(pat): the first 0-based position of pat in str, or npos
str_find(str, pat) ==
    LET hits == {i \in 0..(Len(str) - Len(pat)) :
                    SubSeq(str, i + 1, i + Len(pat)) = pat}
    IN  IF hits = {} THEN npos
        ELSE CHOOSE i \in hits : \A j \in hits : i <= j

\* std::string::find_first_of("\"")
find_first_of(str, ch) == str_find(str, <<ch>>)

\* std::string::substr(from, count); count = npos means up to the end
substr(str, from, count) ==
    LET avail == Len(str) - from
        n == IF count = npos \/ count > avail THEN avail ELSE count
    IN  SubSeq(str, from + 1, from + n)

RECURSIVE ltrim(_)
\* The ltrim lambda: erase leading characters for which isspace holds
ltrim(str) ==
    IF str # << >> /\ Head(str) = " " THEN ltrim(Tail(str)) ELSE str

\* lua_backend.cpp:328-333
HasOpenDelim(line) ==
    \E k \in 0..MaxLevel : str_find(line, OpenDelim(k)) # npos

\* lua_backend.cpp:336-341
HasCloseDelim(line) ==
    \E k \in 0..MaxLevel : str_find(line, CloseDelim(k)) # npos

\* lua_backend.cpp:349-351, main.cpp:296-298: the name taken from a line
\* whose marker is at position n
ExtractName(line, n) ==
    LET start == find_first_of(substr(line, n, npos), Q)
        end == find_first_of(substr(line, n + start + 1, npos), Q)
    IN  substr(substr(line, n, npos), start + 1, end)

\* A vector that keeps one copy of each name
push_back_unique(vec, x) ==
    IF \E i \in DOMAIN vec : vec[i] = x THEN vec ELSE Append(vec, x)

\* output.push_back(name)
push_back(vec, x) == Append(vec, x)

\* lua_backend.cpp:345-347: the line contributes a name
LuaLineMatches(line) ==
    LET n == str_find(line, Marker)
        c == str_find(line, Dashes)
    IN  n # npos /\ (c = npos \/ c > n)

\* Lines of the scanned texts
GetA == Marker \o <<"(", Q, "A", Q, ")">>
GetB == Marker \o <<"(", Q, "B", Q, ")">>
SourceLines ==
    { OpenDelim(0),
      OpenDelim(2),
      CloseDelim(0),
      CloseDelim(2),
      GetA,
      <<" ", " ">> \o GetB \o <<" ">> \o Dashes \o <<"c">>,
      Dashes \o <<" ">> \o GetA,
      Marker \o <<"(", "A", ")">>,
      Marker \o <<"(", Q, "A">>,
      Marker \o <<"(", "'", "A", "'", ")">>,
      OpenDelim(0) \o <<"c">> \o CloseDelim(0) }

Texts == UNION {[1..n -> SourceLines] : n \in 1..MaxLines}

scan_frame == <<run_vars, compile_vars, pipe_vars>>

\* One iteration of the loop at lua_backend.cpp:325-355
LuaScanLine ==
    /\ s_backend = "lua"
    /\ pos < Len(text)
    /\ pos' = pos + 1
    /\ LET line == ltrim(text[pos + 1]) IN
        IF HasOpenDelim(line)
        THEN /\ is_comment' = TRUE
             /\ UNCHANGED <<output, from_lines>>
        ELSE IF is_comment /\ HasCloseDelim(line)
        THEN /\ is_comment' = FALSE
             /\ UNCHANGED <<output, from_lines>>
        ELSE IF ~is_comment /\ LuaLineMatches(line)
        THEN /\ output' = push_back(output,
                              ExtractName(line, str_find(line, Marker)))
             /\ from_lines' = Append(from_lines, pos + 1)
             /\ UNCHANGED is_comment
        ELSE UNCHANGED <<is_comment, output, from_lines>>
    /\ UNCHANGED <<s_backend, text>>
    /\ UNCHANGED scan_frame

\* One iteration of the loop at main.cpp:291-301
CppScanLine ==
    /\ s_backend = "cpp"
    /\ pos < Len(text)
    /\ pos' = pos + 1
    /\ LET line == text[pos + 1] IN
        IF str_find(line, Marker) # npos
        THEN /\ output' = push_back(output,
                              ExtractName(line, str_find(line, Marker)))
             /\ from_lines' = Append(from_lines, pos + 1)
        ELSE UNCHANGED <<output, from_lines>>
    /\ UNCHANGED <<s_backend, text, is_comment>>
    /\ UNCHANGED scan_frame

ScanStep ==
    \/ LuaScanLine
    \/ CppScanLine

(***************************************************************************)
(* CppBackend::udfDatasetNames: the preprocessor child and the parent's    *)
(* non-blocking read loop (main.cpp:243-286).                              *)
(***************************************************************************)
MaxOutput == 3      \* bytes of the longest preprocessor output
PipeCapacity == 2   \* bytes the kernel's pipe buffer holds
BufSize == 1        \* sizeof(buf), the most one read returns

PipeBytes == {"x", "\n"}

\* What the preprocessor prints for a udf file
PreOutputs == UNION {[1..n -> PipeBytes] : n \in 0..MaxOutput}

Min(a, b) == IF a <= b THEN a ELSE b

pipe_frame == <<run_vars, compile_vars, scan_vars>>

\* pipe(pipefd) fails: return the empty output (main.cpp:244-248)
PipeCreateFail ==
    /\ pipe_pc = "idle"
    /\ pipe_pc' = "returned"
    /\ UNCHANGED <<cpp_pc, pipe, pending, wrote, input>>
    /\ UNCHANGED pipe_frame

\* fork() returns -1: neither branch is taken, return the empty output
\* (main.cpp:250, 306)
PipeForkFail ==
    /\ pipe_pc = "idle"
    /\ pipe_pc' = "returned"
    /\ UNCHANGED <<cpp_pc, pipe, pending, wrote, input>>
    /\ UNCHANGED pipe_frame

\* fork() succeeds: the parent sets O_NONBLOCK on pipefd[0] and enters the
\* loop, still holding pipefd[1] (main.cpp:250, 267-273)
PipeFork ==
    /\ pipe_pc = "idle"
    /\ pipe_pc' = "read"
    /\ cpp_pc' = "forked"
    /\ pipe' = << >>
    /\ wrote' = << >>
    /\ input' = << >>
    /\ pending' = << >>
    /\ UNCHANGED pipe_frame

\* Child: dup2, close, execvp succeeds; g++ -E will print `out`
\* (main.cpp:253-265)
CppChildExec ==
    /\ cpp_pc = "forked"
    /\ \E out \in PreOutputs : pending' = out
    /\ cpp_pc' = "running"
    /\ UNCHANGED <<pipe_pc, pipe, wrote, input>>
    /\ UNCHANGED pipe_frame

\* Child: execvp fails and returns; the child leaves the if and returns the
\* empty output to the caller of udfDatasetNames (main.cpp:265, 306)
CppChildExecFail ==
    /\ cpp_pc = "forked"
    /\ cpp_pc' = "returned"
    /\ UNCHANGED <<pipe_pc, pipe, pending, wrote, input>>
    /\ UNCHANGED pipe_frame

\* Child: the preprocessor writes k more bytes to its standard output; the
\* write blocks while the pipe is full
CppChildWrite ==
    /\ cpp_pc = "running"
    /\ pending # << >>
    /\ Len(pipe) < PipeCapacity
    /\ \E k \in 1..Min(Len(pending), PipeCapacity - Len(pipe)) :
        /\ pipe' = pipe \o SubSeq(pending, 1, k)
        /\ wrote' = wrote \o SubSeq(pending, 1, k)
        /\ pending' = SubSeq(pending, k + 1, Len(pending))
    /\ UNCHANGED <<pipe_pc, cpp_pc, input>>
    /\ UNCHANGED pipe_frame

\* Child: the preprocessor has written all its output and exits
CppChildExit ==
    /\ cpp_pc = "running"
    /\ pending = << >>
    /\ cpp_pc' = "exited"
    /\ UNCHANGED <<pipe_pc, pipe, pending, wrote, input>>
    /\ UNCHANGED pipe_frame

\* The child that returned from udfDatasetNames ends with its caller
CppChildReturnedExits ==
    /\ cpp_pc = "returned"
    /\ cpp_pc' = "exited"
    /\ UNCHANGED <<pipe_pc, pipe, pending, wrote, input>>
    /\ UNCHANGED pipe_frame

\* Parent: read returns n > 0 bytes, input.append(buf, n) (main.cpp:276, 285)
PipeReadData ==
    /\ pipe_pc = "read"
    /\ pipe # << >>
    /\ LET n == Min(Len(pipe), BufSize) IN
        /\ input' = input \o SubSeq(pipe, 1, n)
        /\ pipe' = SubSeq(pipe, n + 1, Len(pipe))
    /\ UNCHANGED <<pipe_pc, cpp_pc, pending, wrote>>
    /\ UNCHANGED pipe_frame

\* Parent: the pipe is empty; the parent's own pipefd[1] keeps a writer open,
\* so read returns -1 with EWOULDBLOCK, never 0 (main.cpp:276-277)
PipeReadWouldBlock ==
    /\ pipe_pc = "read"
    /\ pipe = << >>
    /\ pipe_pc' = "waitpid"
    /\ UNCHANGED <<cpp_pc, pipe, pending, wrote, input>>
    /\ UNCHANGED pipe_frame

\* waitpid(pid, NULL, WNOHANG) that never reports the child
waitpid_WNOHANG_never(child) == FALSE

\* waitpid(pid, NULL, WNOHANG) == pid: the child has exited and is reaped
waitpid_WNOHANG(child) == child = "exited"

\* Parent: waitpid reports the child's exit: break (main.cpp:279-280)
PipeWaitpidReaped ==
    /\ pipe_pc = "waitpid"
    /\ waitpid_WNOHANG(cpp_pc)
    /\ cpp_pc' = "reaped"
    /\ pipe_pc' = "lines"
    /\ UNCHANGED <<pipe, pending, wrote, input>>
    /\ UNCHANGED pipe_frame

\* Parent: the child has not exited: continue (main.cpp:279-281)
PipeWaitpidRunning ==
    /\ pipe_pc = "waitpid"
    /\ ~waitpid_WNOHANG(cpp_pc)
    /\ pipe_pc' = "read"
    /\ UNCHANGED <<cpp_pc, pipe, pending, wrote, input>>
    /\ UNCHANGED pipe_frame

\* Parent: the lines of input are scanned, both descriptors are closed, which
\* discards what the pipe still holds, and output is returned
\* (main.cpp:288-306)
PipeReturn ==
    /\ pipe_pc = "lines"
    /\ pipe_pc' = "returned"
    /\ pipe' = << >>
    /\ UNCHANGED <<cpp_pc, pending, wrote, input>>
    /\ UNCHANGED pipe_frame

PipeStep ==
    \/ PipeCreateFail
    \/ PipeForkFail
    \/ PipeFork
    \/ CppChildExec
    \/ CppChildExecFail
    \/ CppChildWrite
    \/ CppChildExit
    \/ CppChildReturnedExits
    \/ PipeReadData
    \/ PipeReadWouldBlock
    \/ PipeWaitpidReaped
    \/ PipeWaitpidRunning
    \/ PipeReturn

(***************************************************************************)
(* Specifications.                                                         *)
(***************************************************************************)
\* No run call in progress or made
RunIdle ==
    /\ pc = "idle"
    /\ backend = "none"
    /\ bytecode = "good"
    /\ input_datasets = << >>
    /\ output_dataset = OutputDesc("C", 1)
    /\ out_buf = Zeroes(1)
    /\ out_buf0 = Zeroes(1)
    /\ mm_mapped = FALSE
    /\ mm = << >>
    /\ dataset_info = << >>
    /\ registry = << >>
    /\ L_open = FALSE
    /\ status = 0
    /\ ret = FALSE
    /\ exit_path = "none"
    /\ faulted = FALSE
    /\ child_pc = "none"
    /\ child_term = NoTerm
    /\ shm_at_exit = << >>
    /\ entry_done = FALSE
    /\ got = NoLookup
    /\ in_bufs = << >>
    /\ child_priv = << >>
    /\ locals = << >>
    /\ udf_i = 0
    /\ so_symbols = RequiredSymbols
    /\ hdf5_udf_data = << >>
    /\ hdf5_udf_names = << >>
    /\ hdf5_udf_types = << >>
    /\ hdf5_udf_dims = << >>
    /\ udf_calls = 0

\* No compile call in progress or made
CompileIdle ==
    /\ c_pc = "idle"
    /\ c_backend = "none"
    /\ c_args = [udf_readable |-> TRUE, template_file |-> "udf_template",
                 template |-> << >>, tmp_ok |-> TRUE]
    /\ fs_source = NoFile
    /\ tool_pc = "none"
    /\ tool_term = NoTerm
    /\ stat_found = FALSE
    /\ c_result = << >>
    /\ c_path = "none"

\* No scan made
ScanIdle ==
    /\ s_backend = "none"
    /\ text = << >>
    /\ pos = 0
    /\ is_comment = FALSE
    /\ output = << >>
    /\ from_lines = << >>

\* No preprocessor run in progress or made
PipeIdle ==
    /\ pipe_pc = "idle"
    /\ cpp_pc = "none"
    /\ pipe = << >>
    /\ pending = << >>
    /\ wrote = << >>
    /\ input = << >>

InitRun ==
    /\ enable_sandbox \in BOOLEAN
    /\ RunIdle
    /\ CompileIdle
    /\ fs_output = NoFile
    /\ ScanIdle
    /\ PipeIdle

NextRun == RunStep

SpecRun == InitRun /\ [][NextRun]_vars

\* The output path may hold a file left by an earlier build
InitCompile ==
    /\ enable_sandbox = FALSE
    /\ RunIdle
    /\ CompileIdle
    /\ fs_output \in {NoFile, File(StaleArtifact)}
    /\ ScanIdle
    /\ PipeIdle

NextCompile == CompileStep

SpecCompile == InitCompile /\ [][NextCompile]_vars

\* A scanner starts on a source text
InitScan ==
    /\ enable_sandbox = FALSE
    /\ RunIdle
    /\ CompileIdle
    /\ fs_output = NoFile
    /\ s_backend \in {"lua", "cpp"}
    /\ text \in Texts
    /\ pos = 0
    /\ is_comment = FALSE
    /\ output = << >>
    /\ from_lines = << >>
    /\ PipeIdle

NextScan == ScanStep

SpecScan == InitScan /\ [][NextScan]_vars

\* udfDatasetNames of the C++ backend is called
InitPipe ==
    /\ enable_sandbox = FALSE
    /\ RunIdle
    /\ CompileIdle
    /\ fs_output = NoFile
    /\ ScanIdle
    /\ PipeIdle

NextPipe == PipeStep

SpecPipe == InitPipe /\ [][NextPipe]_vars

\* The scheduler lets the parent run: a loop step that stays possible is
\* eventually taken
PipeFairness ==
    /\ WF_vars(PipeReadData)
    /\ WF_vars(PipeReadWouldBlock)
    /\ WF_vars(PipeWaitpidReaped)
    /\ WF_vars(PipeWaitpidRunning)

SpecPipeLive == InitPipe /\ [][NextPipe]_vars /\ PipeFairness

\* run is called with long dataset tables, in a build without the sandbox
InitRegistry ==
    /\ enable_sandbox = FALSE
    /\ RunIdle
    /\ CompileIdle
    /\ fs_output = NoFile
    /\ ScanIdle
    /\ PipeIdle

NextRegistry == RegistryStep

SpecRegistry == InitRegistry /\ [][NextRegistry]_vars

(***************************************************************************)
(* Properties of run.                                                      *)
(***************************************************************************)
ExitedZero(term) == term.kind = "exit" /\ term.code = 0
Joined == pc = "returned" /\ backend = "lua" /\ exit_path = "joined"
DescriptorNames ==
    {output_dataset.name} \cup
    {input_datasets[k].name : k \in DOMAIN input_datasets}

\* C1: in LuaBackend::run a child exits with status 0 only when the user
\* entry point was invoked and returned without error; every failure inside
\* the child (sandbox, init, dynamic_dataset) gives a non-zero exit and makes
\* run return false.
C1_ChildFailureExitsNonZero ==
    /\ (child_term.kind = "exit" /\ child_term.code = 0) => entry_done
    /\ (Joined /\ ~entry_done) => ~ret

\* C2: when the fork succeeded, run returns true if and only if the child
\* terminated by a normal exit with status 0.
C2_RetIffExitedZero ==
    Joined => (ret <=> ExitedZero(child_term))

C2_Witness ==
    Joined /\ child_term.kind = "signal" /\ ~ret

\* C3: after a forked and joined invocation the caller's buffer equals, over
\* all room_size bytes, the shared mapping as it was when the child
\* terminated, whether the child succeeded or not.
C3_CopyBack ==
    Joined =>
        /\ DOMAIN out_buf = 1..room_size(output_dataset)
        /\ out_buf = shm_at_exit

C3_Witness ==
    /\ Joined
    /\ ~ret
    /\ room_size(output_dataset) = 2
    /\ out_buf = <<1, 1>>
    /\ out_buf0 = <<0, 0>>

\* C4: an invocation whose user function aborts or crashes in the child
\* returns false and leaves the host running, and an invocation whose user
\* function returns normally returns true with the child's output in the
\* caller's buffer, also after earlier invocations have failed.
C4_Isolation ==
    /\ backend = "lua" => pc # "dead"
    /\ Joined =>
        /\ ChildFault(child_term) => ~ret
        /\ entry_done => (ret /\ out_buf = shm_at_exit)

C4_Witness ==
    /\ faulted
    /\ Joined
    /\ entry_done
    /\ ret
    /\ \E i \in DOMAIN out_buf : out_buf[i] = 1

\* C5: when luaL_loadbuffer or the initial lua_pcall fails, run returns
\* false, forks no child, and leaves the caller's buffer as it was.
C5_LoadFailure ==
    (backend = "lua" /\ bytecode \in {"malformed", "raises"}
        /\ exit_path # "map_fail") =>
        /\ child_pc = "none"
        /\ child_term = NoTerm
        /\ pc = "returned"
        /\ exit_path \in {"load_fail", "eval_fail"}
        /\ ~ret
        /\ out_buf = out_buf0

C5_Witness ==
    /\ pc = "returned"
    /\ exit_path = "load_fail"
    /\ bytecode = "malformed"
    /\ \E i \in DOMAIN out_buf : out_buf[i] = 1

\* C9: for a query name that is neither the output descriptor's name nor an
\* input descriptor's name, index_of returns -1 and luaGetData, luaGetType,
\* luaGetCast and luaGetDims return NULL.
C9_NotFound ==
    (child_pc = "udf" /\ got.q # "-" /\ got.q \notin DescriptorNames) =>
        /\ got.index = -1
        /\ got.data = NULL
        /\ got.type = NULLSTR
        /\ got.cast = NULLSTR
        /\ got.dims = NULLSTR

\* C10: the table built by run has the output descriptor at index 0 and the
\* inputs at 1..N in the caller's order; the Lua table ends with exactly one
\* empty-name entry at N+1, and the C++ containers each get exactly N+1
\* entries in that order.
C10_TableOrder ==
    LET N == Len(input_datasets) IN
    /\ (backend = "lua" /\ exit_path # "map_fail") =>
        /\ Len(dataset_info) = N + 2
        /\ dataset_info[1] = [output_dataset EXCEPT !.data = ShmPtr]
        /\ \A k \in 1..N : dataset_info[k + 1] = input_datasets[k]
        /\ dataset_info[N + 2].name = ""
        /\ \A i \in 0..(N + 1) :
             lua_gettable(registry, NAME_OFFSET(i))
                 = LuaString(dataset_info[i + 1].name)
    /\ (backend = "cpp" /\ udf_calls = 1) =>
        /\ Len(hdf5_udf_data) = N + 1
        /\ Len(hdf5_udf_names) = N + 1
        /\ Len(hdf5_udf_types) = N + 1
        /\ Len(hdf5_udf_dims) = N + 1
        /\ hdf5_udf_data[1] = output_dataset.data
        /\ hdf5_udf_names[1] = output_dataset.name
        /\ hdf5_udf_types[1] = output_dataset.datatype
        /\ hdf5_udf_dims[1] = output_dataset.dimensions
        /\ \A k \in 1..N :
             /\ hdf5_udf_data[k + 1] = input_datasets[k].data
             /\ hdf5_udf_names[k + 1] = input_datasets[k].name
             /\ hdf5_udf_types[k + 1] = input_datasets[k].datatype
             /\ hdf5_udf_dims[k + 1] = input_datasets[k].dimensions

C10_Witness ==
    /\ backend = "lua"
    /\ pc = "waiting"
    /\ Len(input_datasets) = 2
    /\ input_datasets[1].name = ""
    /\ input_datasets[2].name = "A"
    /\ Len(dataset_info) = 4

ChildCanWrite == child_pc \in {"forked", "init", "udf"}

\* C17: in LuaBackend::run the parent never reads the shared mapping while
\* the child can still write it: the copy-back to the caller's buffer happens
\* only after the child has terminated, and the child stores into the mapping
\* only while the parent is blocked in waitpid.
C17_CopyAfterJoin ==
    [][/\ (backend' = "lua" /\ out_buf' # out_buf /\ pc # "idle") =>
            (~ChildCanWrite /\ child_term # NoTerm /\ out_buf' = shm_at_exit)
       /\ (pc = "waiting" /\ pc' # "waiting") => ~ChildCanWrite
       /\ (mm' # mm /\ pc # "idle" /\ pc # "returned") =>
            (pc = "waiting" /\ pc' = "waiting" /\ out_buf' = out_buf)]_vars

C17_Witness ==
    /\ Joined
    /\ child_term = [kind |-> "signal", code |-> 31]
    /\ out_buf0 = <<1, 0>>
    /\ out_buf = <<0, 1>>

\* The name of the table entry at 0-based index i
TableName(i) == dataset_info[i + 1].name

\* C18: for a query equal to the name of a table entry, index_of returns the
\* lowest index with that name provided no entry before it has an empty name
\* (the output descriptor at index 0 wins over an input of the same name),
\* and luaGetData, luaGetDims, luaGetType and luaGetCast return what was
\* registered for that index; the scan stops at the first empty name and
\* never matches an entry after it.
C18_LookupFirstMatch ==
    (child_pc = "udf" /\ got.q # "-") =>
        LET last == Len(dataset_info) - 1
            hits == {i \in 0..last : TableName(i) = got.q}
        IN  /\ hits # {} =>
                 LET low == CHOOSE i \in hits : \A j \in hits : i <= j
                     e == dataset_info[low + 1]
                 IN  IF \A j \in 0..(low - 1) : TableName(j) # ""
                     THEN /\ got.index = low
                          /\ got.data = e.data
                          /\ got.dims = e.dimensions_str
                          /\ got.type = getDatatype(e)
                          /\ got.cast = getCastDatatype(e)
                     ELSE got.index = -1
            /\ got.index >= 0 =>
                 /\ got.index <= last
                 /\ TableName(got.index) = got.q
                 /\ \A j \in 0..(got.index - 1) : TableName(j) # ""

C18_Witness ==
    /\ child_pc = "udf"
    /\ got.q = "A"
    /\ got.index = 0
    /\ got.data = ShmPtr
    /\ Len(input_datasets) = 2
    /\ input_datasets[2].name = "A"

\* A lookup of a name that the table holds only after an empty name
C18_WitnessStop ==
    /\ child_pc = "udf"
    /\ got.q = "A"
    /\ got.index = -1
    /\ output_dataset.name = "C"
    /\ Len(input_datasets) = 2
    /\ input_datasets[1].name = ""
    /\ input_datasets[2].name = "A"

\* C19: in CppBackend::run, if a required symbol (dynamic_dataset or an
\* exported container) fails to resolve, run returns false without appending
\* to any container and without invoking the entry point; when all resolve,
\* the containers are populated, the entry point is invoked exactly once, and
\* run returns true whatever the entry point did.
C19_SymbolsAllOrNothing ==
    (backend = "cpp" /\ pc = "returned") =>
        /\ (\E name \in RequiredSymbols : loadsym(so_symbols, name) = NULL) =>
              /\ ~ret
              /\ udf_calls = 0
              /\ hdf5_udf_data = << >>
              /\ hdf5_udf_names = << >>
              /\ hdf5_udf_types = << >>
              /\ hdf5_udf_dims = << >>
        /\ ((\A name \in RequiredSymbols : loadsym(so_symbols, name) # NULL)
              /\ exit_path \notin {"write_fail", "open_fail"}) =>
              /\ ret
              /\ udf_calls = 1
              /\ Len(hdf5_udf_data) = Len(input_datasets) + 1
              /\ Len(hdf5_udf_names) = Len(input_datasets) + 1
              /\ Len(hdf5_udf_types) = Len(input_datasets) + 1
              /\ Len(hdf5_udf_dims) = Len(input_datasets) + 1

C19_Witness ==
    /\ backend = "cpp"
    /\ pc = "returned"
    /\ exit_path = "sym_fail"
    /\ so_symbols = RequiredSymbols \ {"hdf5_udf_dims"}
    /\ Len(input_datasets) = 2
    /\ hdf5_udf_names = << >>

\* The other case: all symbols resolve and the entry point has run
C19_WitnessInvoked ==
    /\ backend = "cpp"
    /\ pc = "returned"
    /\ exit_path = "invoked"
    /\ ret
    /\ udf_calls = 1
    /\ Len(hdf5_udf_names) = 3

\* The README function of the current invocation has looked up name j
LookedUp(j) == j \in DOMAIN locals

\* C12: running the function C[i] = A[i] + B[i] with output descriptor C and
\* inputs A = [1,2,3,4], B = [10,20,30,40] returns success and leaves
\* [11,22,33,44] in the caller's buffer for C: each name looked up resolves
\* to the buffer of the descriptor with that name (the shared mapping for
\* the output), and what the child wrote is what the caller sees.
C12_SumExample ==
    (backend = "lua" /\ bytecode = "sum") =>
        /\ \A j \in DOMAIN UdfNames : LookedUp(j) =>
             /\ UdfNames[j] = output_dataset.name => locals[j] = ShmPtr
             /\ \A k \in DOMAIN input_datasets :
                  input_datasets[k].name = UdfNames[j] =>
                      /\ locals[j] = input_datasets[k].data
                      /\ child_priv[locals[j]] = in_bufs[k]
        /\ in_bufs \in {<<Ints32(GridA), Ints32(GridB)>>,
                        <<Ints32(GridB), Ints32(GridA)>>}
        /\ (Joined /\ entry_done) =>
             /\ ret
             /\ out_buf = Ints32(<<11, 22, 33, 44>>)

C12_Witness ==
    /\ Joined
    /\ bytecode = "sum"
    /\ entry_done
    /\ ret
    /\ input_datasets[1].name = "B"
    /\ out_buf0 = Ints32(<<7, 7, 7, 7>>)
    /\ out_buf = Ints32(<<11, 22, 33, 44>>)

C13_ScratchWitness ==
    /\ Joined
    /\ bytecode = "variations"
    /\ output_dataset.name = "B"
    /\ Len(input_datasets) = 2
    /\ entry_done
    /\ ret
    /\ out_buf = Ints32(<<2, 4, 6, 8>>)

(***************************************************************************)
(* Properties of compile.                                                  *)
(***************************************************************************)
\* C6: compile returns an empty artifact when the template is missing, when
\* the placeholder is not in the template, when the toolchain child exits
\* with a non-zero status, and when the output file is absent after the
\* child has exited.
C6_CompileFailureEmpty ==
    (c_pc = "returned" /\
        \/ c_args.template_file = ""
        \/ c_args.template = << >>
        \/ find(c_args.template, Placeholder) = npos
        \/ (c_path = "joined" /\ tool_term.kind = "exit" /\ tool_term.code # 0)
        \/ (c_path = "joined" /\ ~stat_found))
    => c_result = << >>

\* C20: when the toolchain child has exited and the output file exists,
\* compile returns exactly the contents of that file, and when compile
\* returns both the output file and the temporary source file are deleted;
\* the output file is read only after the child has terminated.
C20_ArtifactReadAfterExit ==
    [][(c_pc = "waiting" /\ c_pc' = "returned") =>
          /\ tool_pc = "terminated"
          /\ tool_term # NoTerm
          /\ fs_source.exists
          /\ fs_output.exists => (stat_found' /\ c_result' = fs_output.data)
          /\ ~fs_output'.exists
          /\ ~fs_source'.exists]_vars

C20_Witness ==
    /\ c_pc = "returned"
    /\ c_path = "joined"
    /\ stat_found
    /\ c_result = <<1, 2>>
    /\ tool_term = [kind |-> "exit", code |-> 0]
    /\ ~fs_output.exists
    /\ ~fs_source.exists

(***************************************************************************)
(* Properties of udfDatasetNames.                                          *)
(***************************************************************************)
\* The block comment a line opens: the level of its first long-bracket
\* opening, unless the matching closing delimiter follows on the same line
OpenedLevel(line) ==
    LET ks == {k \in 0..MaxLevel : str_find(line, OpenDelim(k)) # npos}
    IN  IF ks = {} THEN -1
        ELSE LET k == CHOOSE k \in ks :
                        \A j \in ks : str_find(line, OpenDelim(k))
                                        <= str_find(line, OpenDelim(j))
                 rest == substr(line,
                                str_find(line, OpenDelim(k)) + Len(OpenDelim(k)),
                                npos)
             IN  IF str_find(rest, CloseDelim(k)) # npos THEN -1 ELSE k

RECURSIVE BlockAfter(_, _)
\* The level of the block comment that is open after the first i lines of
\* txt, -1 when none is: a comment opened by a level-k delimiter ends at the
\* closing delimiter of level k
BlockAfter(txt, i) ==
    IF i = 0 THEN -1
    ELSE LET before == BlockAfter(txt, i - 1) IN
         IF before = -1 THEN OpenedLevel(txt[i])
         ELSE IF str_find(txt[i], CloseDelim(before)) # npos THEN -1
         ELSE before

\* Line i lies between the opening line of a block comment and the line
\* with its matching closing delimiter
InsideBlock(txt, i) == BlockAfter(txt, i - 1) # -1 /\ BlockAfter(txt, i) # -1

\* C7: LuaBackend::udfDatasetNames returns no name from a line inside a block
\* comment, and stays in the inside-comment state from the opening delimiter
\* until the line with the closing delimiter that matches it.
C7_BlockCommentsSkipped ==
    s_backend = "lua" =>
        /\ BlockAfter(text, pos) # -1 => is_comment
        /\ \A k \in DOMAIN from_lines : ~InsideBlock(text, from_lines[k])

\* Line i of txt lies outside all block comments: no block comment is open
\* when the line starts and the line has no opening delimiter of its own
OutsideBlocks(txt, i) ==
    /\ BlockAfter(txt, i - 1) = -1
    /\ ~HasOpenDelim(txt[i])

\* The line has a double-quoted literal after position n
HasLiteral(line, n) ==
    LET rest == substr(line, n, npos)
        a == find_first_of(rest, Q)
    IN  a # npos /\ find_first_of(substr(rest, a + 1, npos), Q) # npos

\* The first double-quoted literal after position n of the line
FirstLiteral(line, n) ==
    LET rest == substr(line, n, npos)
        inner == substr(rest, find_first_of(rest, Q) + 1, npos)
    IN  substr(inner, 0, find_first_of(inner, Q))

\* C16: in LuaBackend::udfDatasetNames every line outside all block comments
\* that has the marker lib.getData with no "--" before it contributes the
\* first double-quoted literal after the marker to the result; a line whose
\* marker is preceded by "--" contributes nothing.
C16_MarkerLinesContribute ==
    (s_backend = "lua" /\ pos = Len(text)) =>
        \A i \in 1..Len(text) :
            LET line == text[i]
                n == str_find(line, Marker)
                c == str_find(line, Dashes)
            IN  /\ (/\ OutsideBlocks(text, i)
                    /\ n # npos
                    /\ (c = npos \/ c > n)
                    /\ HasLiteral(line, n)) =>
                        \E k \in DOMAIN from_lines :
                            /\ from_lines[k] = i
                            /\ output[k] = FirstLiteral(line, n)
                /\ (n # npos /\ c # npos /\ c < n) =>
                        \A k \in DOMAIN from_lines : from_lines[k] # i

\* C8: the names returned are in the order of the lines they come from, one
\* element per contributing line, duplicates kept.
C8_OrderAndDuplicates ==
    s_backend \in {"lua", "cpp"} =>
        /\ Len(output) = Len(from_lines)
        /\ \A k \in DOMAIN from_lines :
             /\ from_lines[k] \in 1..pos
             /\ \A j \in 1..(k - 1) : from_lines[j] < from_lines[k]
             /\ LET line == IF s_backend = "lua"
                            THEN ltrim(text[from_lines[k]])
                            ELSE text[from_lines[k]]
                IN  output[k] = ExtractName(line, str_find(line, Marker))

C8_Witness ==
    /\ s_backend = "lua"
    /\ pos = Len(text)
    /\ output = <<<<"B">>, <<"A">>, <<"A">>>>

\* C25: in both scanners a line contributes at most one name, and every
\* contributed name is the text strictly between the first two double-quote
\* characters after the marker lib.getData on its line; a marker line with no
\* double-quoted literal after the marker contributes no name.
C25_NamesAreLiterals ==
    s_backend \in {"lua", "cpp"} =>
        \A k \in DOMAIN from_lines :
            LET line == IF s_backend = "lua"
                        THEN ltrim(text[from_lines[k]])
                        ELSE text[from_lines[k]]
                n == str_find(line, Marker)
            IN  /\ \A j \in DOMAIN from_lines :
                      from_lines[j] = from_lines[k] => j = k
                /\ HasLiteral(line, n)
                /\ output[k] = FirstLiteral(line, n)

(***************************************************************************)
(* Properties of the pipe read loop.                                       *)
(***************************************************************************)
\* C14: when the read loop of CppBackend::udfDatasetNames exits, every byte
\* the preprocessor child wrote to the pipe has been appended to input: no
\* written byte is left unread when the line extraction starts.
C14_AllBytesCollected ==
    pipe_pc = "lines" => (pipe = << >> /\ input = wrote)

\* The child is in a write that cannot proceed because the pipe is full
ChildBlocked ==
    cpp_pc = "running" /\ pending # << >> /\ Len(pipe) = PipeCapacity

\* C15: the read loop neither deadlocks nor spins forever: a child blocked on
\* a full pipe is unblocked by the looping parent, and under fair scheduling
\* of the parent, once the child has exited the loop ends.
C15_LoopTerminates ==
    /\ ChildBlocked ~> ~ChildBlocked
    /\ (cpp_pc = "exited") ~> (pipe_pc = "lines")

C15_Witness ==
    /\ pipe_pc = "lines"
    /\ cpp_pc = "reaped"
    /\ Len(input) = MaxOutput
    /\ input = wrote

(***************************************************************************)
(* Properties of the forked toolchain children.                            *)
(***************************************************************************)
\* C21: a child forked by compile never returns from compile into the
\* caller's code, whether exec of the toolchain succeeds or fails: only the
\* parent returns from the call.
C21_OnlyParentReturns ==
    tool_pc # "returned"

(***************************************************************************)
(* Frame of LuaBackend::run.                                               *)
(***************************************************************************)
\* C22: in LuaBackend::run only the output dataset crosses the process
\* boundary: while run is in progress the bytes behind the caller's input
\* buffers, the caller's input descriptors and the caller's output descriptor
\* (its buffer pointer included) never change, whatever the child stores into
\* its copy of the input buffers; the pointer redirected to the shared
\* mapping is the one of the table's copy of the output descriptor.
C22_OnlyOutputCrosses ==
    /\ [](( backend = "lua" /\ dataset_info # << >>) =>
            /\ output_dataset.data = OutPtr
            /\ dataset_info[1] = [output_dataset EXCEPT !.data = ShmPtr]
            /\ \A k \in DOMAIN input_datasets :
                  /\ input_datasets[k].data = InPtr(k)
                  /\ dataset_info[k + 1] = input_datasets[k])
    /\ [][(backend = "lua" /\ pc = "waiting") =>
            /\ in_bufs' = in_bufs
            /\ input_datasets' = input_datasets
            /\ output_dataset' = output_dataset]_vars

\* The variations function stored into its copy of the scratch input buffer
\* and run returned: the host's buffer still holds what the caller put there
C22_Witness ==
    /\ Joined
    /\ entry_done
    /\ bytecode = "variations"
    /\ Len(in_bufs) = 2
    /\ in_bufs[2] = Ints32(<<0, 0, 0, 0>>)
    /\ child_priv[InPtr(2)] # in_bufs[2]
    /\ out_buf = shm_at_exit
    /\ out_buf # out_buf0

\* C23: the interpreter context LuaBackend::run creates with luaL_newstate is
\* closed in the host process by the time run returns, on every exit path.
C23_InterpreterClosed ==
    (backend = "lua" /\ pc = "returned") => ~L_open

(***************************************************************************)
(* Properties of the registry keys.                                        *)
(***************************************************************************)
\* C24: for every dataset table LuaBackend::run registers, the five registry
\* keys of all entries are pairwise distinct, so every field of every entry
\* is still in the registry under its own key after the loop, and index_of
\* reaches every entry of the table by its name.
C24_KeysDistinct ==
    (backend = "lua" /\ dataset_info # << >>) =>
        /\ Cardinality(DOMAIN registry) = 5 * Len(dataset_info)
        /\ \A i \in 0..(Len(dataset_info) - 1) :
              LET e == dataset_info[i + 1] IN
              /\ registry[DATA_OFFSET(i)] = LightUserData(e.data)
              /\ registry[NAME_OFFSET(i)] = LuaString(e.name)
              /\ registry[DIMS_OFFSET(i)] = LuaString(e.dimensions_str)
              /\ registry[TYPE_OFFSET(i)] = LuaString(getDatatype(e))
              /\ registry[CAST_OFFSET(i)] = LuaString(getCastDatatype(e))
              /\ index_of(registry, e.name) = i

====
